---- MODULE Spec2Model ----
(***************************************************************************)
(* Model of lsst.dax.imgserv.crawler (crawler.py): a single-threaded       *)
(* crawler that, every RERUN_SECONDS, asks the data catalog for the        *)
(* UNSCANNED datasets, stats and checksums each dataset's file at the      *)
(* watch site, patches the scan result to the catalog, inserts the file    *)
(* into the FITS metadata database and patches the fileId back.            *)
(*                                                                         *)
(* The catalog (datacat Client), the file system and the metadata          *)
(* database are the environment: each call to them either succeeds or      *)
(* fails, chosen nondeterministically.                                     *)
(***************************************************************************)
EXTENDS Integers, Sequences, FiniteSets, TLC

\* ---------------------------------------------------------------- bounds
NumDatasets == 3      \* datasets registered in the catalog
MaxNum == 2           \* page cap of one search (max_num; 1000 in the code)
MaxCycles == 2        \* scan cycles explored
MaxTime == 1          \* seconds the clock may advance inside cycles
MaxFaults == 2        \* failures of catalog and database calls explored

\* ------------------------------------------------------- program constants
RERUN_SECONDS == 5
WATCH_SITE == "SLAC"
OTHER_SITE == "OTHER"

Datasets == 1..NumDatasets

\* dataset.path and dataset.versionId of dataset d (opaque catalog keys)
DatasetPath(d) == d
VersionId(d) == d

\* resource of dataset d at the watch site (a file path), and elsewhere
WatchResource(d) == 10 + d
OtherResource(d) == 20 + d
WatchFiles == { WatchResource(d) : d \in Datasets }

\* The location lists a dataset may carry: none at the watch site, or the
\* watch site's location after another site's.
LocationLists(d) ==
  { << [site |-> OTHER_SITE, resource |-> OtherResource(d)] >>,
    << [site |-> OTHER_SITE, resource |-> OtherResource(d)],
       [site |-> WATCH_SITE, resource |-> WatchResource(d)] >> }

HasWatchSite(locs) == \E i \in DOMAIN locs : locs[i].site = WATCH_SITE

\* A file at the watch site: "ok"; "nostat" (missing or not reachable:
\* os.stat raises OSError); "noread" (stat succeeds, cksum cannot read it).
FileStates == {"ok", "nostat", "noread"}

VARIABLES
  where,       \* main(): "ctor" | "constructed" | "schedrun" | "exited"
  exc,         \* the exception that ended the process, "none" while alive
  exitCode,    \* exit status once where = "exited"
  pc,          \* position inside _run()/run(); "idle" when no _run is active
  activeRuns,  \* invocations of run() in progress
  cycle,       \* cycles started so far
  now,         \* time.time()
  queue,       \* sched's event queue: due times of the pending _run events
  results,     \* unpack(resp.content): the page of the current cycle
  idx,         \* position of the for loop in results
  file_path,   \* locals of the loop body
  size,
  cksum,
  fileId,
  locations,   \* catalog: dataset -> its locations
  catalog,     \* catalog: dataset -> record patched by patch_dataset
  fs,          \* file system: watch-site file path -> state of the file
  fileRecords, \* metadata database: the FileRecords inserted
  nextFileId,  \* metadata database: next generated id
  calls,       \* history of the calls made to catalog and metadata database
  log,         \* records written through lsst.log
  history      \* whether calls, log, cycle count and absolute time are kept

vars == << where, exc, exitCode, pc, activeRuns, cycle, now, queue, results,
           idx, file_path, size, cksum, fileId, locations, catalog, fs,
           fileRecords, nextFileId, calls, log, history >>

procVars == << where, exc, exitCode >>
loopVars == << results, idx, file_path, size, cksum, fileId >>
envVars == << locations, fs, history >>
storeVars == << fileRecords, nextFileId >>

NoFileId == 0
EmptyToken == 0      \* the empty string "" as a checksum token

\* ------------------------------------------------------------ file system
\* st_size and the CRC that cksum prints for a readable file
StSize(p) == 100 * p
FileCrc(p) == 7000 + p

\* stdout of "cksum path", as its space-separated tokens: checksum, byte
\* count, name; nothing when cksum fails
CksumStdout(st, p) ==
  IF st = "ok" THEN << FileCrc(p), StSize(p), p >> ELSE << >>

\* str.split(" "): the empty string splits into one empty token
Split(out) == IF out = << >> THEN << EmptyToken >> ELSE out

\* Crawler.get_cksum: the exit status is ignored, the first token returned
get_cksum(st, p) == Split(CksumStdout(st, p))[1]

\* Crawler.get_metadata: always None
get_metadata(p) == << >>

\* ------------------------------------------------------------ observers
\* calls, log and cycle only observe the program, and time.time() only
\* grows.  A specification that follows unboundedly many cycles drops the
\* observers (history = FALSE) and counts time from the start of the
\* current cycle, which keeps its state space finite.
Hist(h, x) == IF history THEN Append(h, x) ELSE h
Count(n) == IF history THEN n + 1 ELSE n
Clock(t) == IF history THEN t ELSE 0

\* -------------------------------------------------------------- logging
\* A record names its level, its message and the path formatted into it;
\* "at" is the number of external calls made when it was written
LogRec(level, msg, p, n) ==
  [level |-> level, msg |-> msg, path |-> p, at |-> n]

MsgSearchError == "Error occurred"
MsgPatchResp == "patch_resp"
MsgInserting == "Inserting"
MsgInserted == "Inserted"
MsgUpdateError == "Encountered error while updating dataset"

\* --------------------------------------------------------------- catalog
Unscanned == { d \in Datasets : catalog[d].scanStatus = "UNSCANNED" }

Min(a, b) == IF a < b THEN a ELSE b
Max(a, b) == IF a > b THEN a ELSE b

\* A set of datasets as the sequence the catalog returns, ordered by path
RECURSIVE SortedSeq(_)
SortedSeq(S) ==
  IF S = {} THEN << >>
  ELSE LET m == CHOOSE x \in S : \A y \in S : x <= y
       IN << m >> \o SortedSeq(S \ {m})

\* The pages a search capped at n may return: n of the matching datasets,
\* all of them when there are fewer
Pages(n) ==
  { SortedSeq(S) : S \in { T \in SUBSET Unscanned :
                             Cardinality(T) = Min(n, Cardinality(Unscanned)) } }

CallRec(op, arg, v, site, body, ok) ==
  [op |-> op, arg |-> arg, versionId |-> v, site |-> site, body |-> body,
   ok |-> ok, cycle |-> cycle]

NoBody ==
  [kind |-> "none", scanStatus |-> "", size |-> 0, checksum |-> 0,
   locationScanned |-> 0, fileId |-> 0]

\* A scan result that lacks the scanStatus entry
ScanResult_noStatus ==
  [kind |-> "scanResult", scanStatus |-> "", size |-> size, checksum |-> cksum,
   locationScanned |-> Clock(now), fileId |-> NoFileId]

\* scan_result built at lines 124-133 (get_metadata yields nothing, so no
\* versionMetadata entry)
ScanResult ==
  [kind |-> "scanResult", scanStatus |-> "OK", size |-> size, checksum |-> cksum,
   locationScanned |-> Clock(now), fileId |-> NoFileId]

\* An md_patch that carries the id the database hands out next
MdPatch_nextId(f) ==
  [kind |-> "versionMetadata", scanStatus |-> "", size |-> 0, checksum |-> 0,
   locationScanned |-> 0, fileId |-> f + 1]

\* md_patch built at lines 141-143
MdPatch(f) ==
  [kind |-> "versionMetadata", scanStatus |-> "", size |-> 0, checksum |-> 0,
   locationScanned |-> 0, fileId |-> f]

\* The catalog applies a patch body to a dataset record: the entries the
\* body holds replace the record's
ApplyPatch(rec, body) ==
  IF body.kind = "scanResult"
  THEN [rec EXCEPT !.scanStatus = IF body.scanStatus = "" THEN @ ELSE body.scanStatus,
                   !.size = body.size,
                   !.checksum = body.checksum,
                   !.locationScanned = body.locationScanned]
  ELSE [rec EXCEPT !.fileId = body.fileId]

\* The calls to the catalog and the metadata database that failed so far
Faults ==
  Cardinality({ i \in DOMAIN calls :
                  /\ calls[i].op \in {"search", "patch_dataset", "insertFile"}
                  /\ ~calls[i].ok })

MayFail == Faults < MaxFaults

\* The current dataset of the loop
Cur == results[idx]

\* The first location at the watch site, << >> for None (lines 112-116)
RECURSIVE CheckLocation(_)
CheckLocation(locs) ==
  IF locs = << >> THEN << >>
  ELSE IF Head(locs).site = WATCH_SITE THEN << Head(locs) >>
  ELSE CheckLocation(Tail(locs))

\* ----------------------------------------------------------------- Init
\* main() has built the configuration; Crawler.__init__ has created the
\* client and the empty scheduler and is about to call self._run().
InitState ==
  /\ where = "ctor"
  /\ exc = "none"
  /\ exitCode = 0
  /\ pc = "idle"
  /\ activeRuns = 0
  /\ cycle = 0
  /\ now = 0
  /\ queue = << >>
  /\ results = << >>
  /\ idx = 0
  /\ file_path = 0
  /\ size = 0
  /\ cksum = 0
  /\ fileId = NoFileId
  /\ locations \in { f \in [Datasets -> UNION { LocationLists(d) : d \in Datasets }] :
                       \A d \in Datasets : f[d] \in LocationLists(d) }
  /\ catalog = [d \in Datasets |->
                  [scanStatus |-> "UNSCANNED", size |-> 0, checksum |-> 0,
                   locationScanned |-> 0, fileId |-> NoFileId]]
  /\ fs \in [WatchFiles -> FileStates]
  \* a dataset that is not at the watch site has no file there
  /\ \A d \in Datasets :
       ~HasWatchSite(locations[d]) => fs[WatchResource(d)] = "nostat"
  /\ fileRecords = {}
  /\ nextFileId = 1
  /\ calls = << >>
  /\ log = << >>

Init == InitState /\ history = TRUE

\* The same start, without the observers
LiveInit == InitState /\ history = FALSE

\* An exception e leaves run() and _run() uncaught: the interpreter prints
\* the traceback and exits with status 1.  sys.exit(1) leaves the same way.
Raise(e) ==
  /\ where' = "exited"
  /\ exc' = e
  /\ exitCode' = 1
  /\ pc' = "idle"
  /\ activeRuns' = 0

\* Time passes while a cycle runs: its calls block the thread (the time a
\* cycle takes is charged to its search)
Tick ==
  /\ where # "exited"
  /\ pc = "search"
  /\ now < MaxTime
  /\ now' = now + 1
  /\ UNCHANGED << procVars, pc, activeRuns, cycle, queue, loopVars, envVars,
                  catalog, storeVars, calls, log >>

\* Crawler._run, lines 69-70: self.run() is called first and nothing is
\* entered into the scheduler before it returns; q is the queue at the call
QueueAtRunCall_armFirst(q, t) == Append(q, t + RERUN_SECONDS)

QueueAtRunCall(q, t) == q

\* _run() calls run(), which opens the metadata database (lines 86-90)
RunCall(q, t) ==
  /\ pc' = "search"
  /\ cycle' = Count(cycle)
  /\ activeRuns' = activeRuns + 1
  /\ now' = Clock(t)
  /\ queue' = QueueAtRunCall(q, t)
  /\ UNCHANGED << procVars, loopVars, envVars, catalog, storeVars, calls, log >>

\* A constructor that only enters the first cycle into the scheduler
CtorRun_deferred ==
  /\ where = "ctor"
  /\ pc = "idle"
  /\ cycle = 0
  /\ queue' = Append(queue, now + RERUN_SECONDS)
  /\ where' = "constructed"
  /\ UNCHANGED << exc, exitCode, pc, activeRuns, cycle, now, loopVars, envVars,
                  catalog, storeVars, calls, log >>

\* Crawler.__init__, line 64: the first cycle runs inside the constructor
CtorRun ==
  /\ where = "ctor"
  /\ pc = "idle"
  /\ cycle = 0
  /\ RunCall(queue, now)

\* main(), line 155, and Crawler.start: the constructor has returned and
\* sched.run() takes over
Start ==
  /\ where = "constructed"
  /\ pc = "idle"
  /\ where' = "schedrun"
  /\ UNCHANGED << exc, exitCode, pc, activeRuns, cycle, now, queue, loopVars,
                  envVars, catalog, storeVars, calls, log >>

\* sched.run(): take the earliest event off the queue, sleep until it is
\* due and call its action, _run
SchedRunEvent ==
  /\ where = "schedrun"
  /\ pc = "idle"
  /\ queue # << >>
  /\ cycle < MaxCycles
  /\ RunCall(Tail(queue), Max(now, Head(queue)))

\* lines 92-95, 108: the search returns one page of UNSCANNED datasets
SearchOk ==
  /\ pc = "search"
  /\ \E page \in Pages(MaxNum) :
       /\ results' = page
       /\ idx' = 1
  /\ calls' = Hist(calls, CallRec("search", 0, 0, "all", NoBody, TRUE))
  /\ pc' = "loop"
  /\ UNCHANGED << procVars, activeRuns, cycle, now, queue, file_path, size,
                  cksum, fileId, envVars, catalog, storeVars, log >>

\* A search failure that only ends the cycle: run() returns to _run()
SearchFails_abortCycle ==
  /\ pc = "search"
  /\ MayFail
  /\ calls' = Hist(calls, CallRec("search", 0, 0, "all", NoBody, FALSE))
  /\ log' = Hist(log, LogRec("WARN", MsgSearchError, 0, Len(calls) + 1))
  /\ pc' = "enter"
  /\ activeRuns' = activeRuns - 1
  /\ UNCHANGED << procVars, cycle, now, queue, loopVars, envVars, catalog,
                  storeVars >>

\* lines 96-106: the search raises DcException; it is logged and the
\* process exits through sys.exit(1)
SearchFails ==
  /\ pc = "search"
  /\ MayFail
  /\ calls' = Hist(calls, CallRec("search", 0, 0, "all", NoBody, FALSE))
  /\ log' = Hist(log, LogRec("WARN", MsgSearchError, 0, Len(calls) + 1))
  /\ Raise("SystemExit")
  /\ UNCHANGED << cycle, now, queue, loopVars, envVars, catalog, storeVars >>

\* lines 110-118: the next dataset has a location at the watch site
LocationFound ==
  /\ pc = "loop"
  /\ idx <= Len(results)
  /\ CheckLocation(locations[Cur]) # << >>
  /\ file_path' = CheckLocation(locations[Cur])[1].resource
  /\ pc' = "stat"
  /\ UNCHANGED << procVars, activeRuns, cycle, now, queue, results, idx, size,
                  cksum, fileId, envVars, catalog, storeVars, calls, log >>

\* line 117: check_location is None and check_location.resource raises
\* AttributeError, which nothing catches
LocationMissing ==
  /\ pc = "loop"
  /\ idx <= Len(results)
  /\ CheckLocation(locations[Cur]) = << >>
  /\ Raise("AttributeError")
  /\ UNCHANGED << cycle, now, queue, loopVars, envVars, catalog, storeVars,
                  calls, log >>

\* line 119: os.stat succeeds
StatOk ==
  /\ pc = "stat"
  /\ fs[file_path] # "nostat"
  /\ size' = StSize(file_path)
  /\ calls' = Hist(calls, CallRec("stat", file_path, 0, "none", NoBody, TRUE))
  /\ pc' = "cksum"
  /\ UNCHANGED << procVars, activeRuns, cycle, now, queue, results, idx,
                  file_path, cksum, fileId, envVars, catalog, storeVars, log >>

\* line 119: os.stat raises OSError, which nothing catches
StatFails ==
  /\ pc = "stat"
  /\ fs[file_path] = "nostat"
  /\ calls' = Hist(calls, CallRec("stat", file_path, 0, "none", NoBody, FALSE))
  /\ Raise("OSError")
  /\ UNCHANGED << cycle, now, queue, loopVars, envVars, catalog, storeVars, log >>

\* lines 120-133: the checksum is taken and the scan result built
Cksum ==
  /\ pc = "cksum"
  /\ cksum' = get_cksum(fs[file_path], file_path)
  /\ calls' = Hist(calls, CallRec("cksum", file_path, 0, "none", NoBody,
                                    fs[file_path] = "ok"))
  /\ pc' = "patch1"
  /\ UNCHANGED << procVars, activeRuns, cycle, now, queue, results, idx,
                  file_path, size, fileId, envVars, catalog, storeVars, log >>

\* A phase-1 success after which the file is not inserted
Patch1Ok_skipInsert ==
  /\ pc = "patch1"
  /\ log' = Hist(log, LogRec("DEBUG", MsgPatchResp, file_path, Len(calls)))
  /\ calls' = Hist(calls, CallRec("patch_dataset", DatasetPath(Cur), VersionId(Cur),
                                    WATCH_SITE, ScanResult, TRUE))
  /\ catalog' = [catalog EXCEPT ![Cur] = ApplyPatch(@, ScanResult)]
  /\ pc' = "patch2"
  /\ UNCHANGED << procVars, activeRuns, cycle, now, queue, loopVars, envVars,
                  storeVars >>

\* lines 135-138: the phase-1 patch succeeds; the catalog takes the scan
\* result for the dataset
Patch1Ok ==
  /\ pc = "patch1"
  /\ log' = Hist(log, LogRec("DEBUG", MsgPatchResp, file_path, Len(calls)))
  /\ calls' = Hist(calls, CallRec("patch_dataset", DatasetPath(Cur), VersionId(Cur),
                                    WATCH_SITE, ScanResult, TRUE))
  /\ catalog' = [catalog EXCEPT ![Cur] = ApplyPatch(@, ScanResult)]
  /\ pc' = "insert"
  /\ UNCHANGED << procVars, activeRuns, cycle, now, queue, loopVars, envVars,
                  storeVars >>

\* A phase-1 failure after which the try block carries on
Patch1Fails_carryOn ==
  /\ pc = "patch1"
  /\ MayFail
  /\ log' = Hist(log, LogRec("DEBUG", MsgPatchResp, file_path, Len(calls)))
  /\ calls' = Hist(calls, CallRec("patch_dataset", DatasetPath(Cur), VersionId(Cur),
                                    WATCH_SITE, ScanResult, FALSE))
  /\ pc' = "insert"
  /\ UNCHANGED << procVars, activeRuns, cycle, now, queue, loopVars, envVars,
                  catalog, storeVars >>

\* lines 135-138, 147: the phase-1 patch raises DcException; control goes
\* to the except clause
Patch1Fails ==
  /\ pc = "patch1"
  /\ MayFail
  /\ log' = Hist(log, LogRec("DEBUG", MsgPatchResp, file_path, Len(calls)))
  /\ calls' = Hist(calls, CallRec("patch_dataset", DatasetPath(Cur), VersionId(Cur),
                                    WATCH_SITE, ScanResult, FALSE))
  /\ pc' = "handler"
  /\ UNCHANGED << procVars, activeRuns, cycle, now, queue, loopVars, envVars,
                  catalog, storeVars >>

\* MetadataFitsDb.insertFile: a FileRecord is stored under a generated id
InsertFile(p) ==
  /\ fileRecords' = fileRecords \cup { [fileId |-> nextFileId, path |-> p] }
  /\ nextFileId' = nextFileId + 1

\* lines 139-140: the file is inserted and its id kept
InsertOk ==
  /\ pc = "insert"
  /\ log' = Hist(log, LogRec("DEBUG", MsgInserting, file_path, Len(calls)))
  /\ calls' = Hist(calls, CallRec("insertFile", file_path, 0, "none", NoBody, TRUE))
  /\ fileId' = nextFileId
  /\ InsertFile(file_path)
  /\ pc' = "patch2"
  /\ UNCHANGED << procVars, activeRuns, cycle, now, queue, results, idx,
                  file_path, size, cksum, envVars, catalog >>

\* lines 139-140: insertFile raises; its error is no DcException, the
\* except clause does not catch it
InsertFails ==
  /\ pc = "insert"
  /\ MayFail
  /\ log' = Hist(log, LogRec("DEBUG", MsgInserting, file_path, Len(calls)))
  /\ calls' = Hist(calls, CallRec("insertFile", file_path, 0, "none", NoBody, FALSE))
  /\ Raise("InsertError")
  /\ UNCHANGED << cycle, now, queue, loopVars, envVars, catalog, storeVars >>

\* lines 141-146: the phase-2 patch succeeds and the loop moves on
Patch2Ok ==
  /\ pc = "patch2"
  /\ calls' = Hist(calls, CallRec("patch_dataset", DatasetPath(Cur), VersionId(Cur), "none",
                                    MdPatch(fileId), TRUE))
  /\ catalog' = [catalog EXCEPT ![Cur] = ApplyPatch(@, MdPatch(fileId))]
  /\ log' = Hist(log, LogRec("INFO", MsgInserted, file_path, Len(calls) + 1))
  /\ idx' = idx + 1
  /\ pc' = "loop"
  /\ UNCHANGED << procVars, activeRuns, cycle, now, queue, results, file_path,
                  size, cksum, fileId, envVars, storeVars >>

\* lines 141-147: the phase-2 patch raises DcException
Patch2Fails ==
  /\ pc = "patch2"
  /\ MayFail
  /\ calls' = Hist(calls, CallRec("patch_dataset", DatasetPath(Cur), VersionId(Cur), "none",
                                    MdPatch(fileId), FALSE))
  /\ pc' = "handler"
  /\ UNCHANGED << procVars, activeRuns, cycle, now, queue, loopVars, envVars,
                  catalog, storeVars, log >>

\* line 148: the except clause logs the warning and the loop moves on
HandlerLogs ==
  /\ pc = "handler"
  /\ log' = Hist(log, LogRec("WARN", MsgUpdateError, file_path, Len(calls)))
  /\ idx' = idx + 1
  /\ pc' = "loop"
  /\ UNCHANGED << procVars, activeRuns, cycle, now, queue, results, file_path,
                  size, cksum, fileId, envVars, catalog, storeVars, calls >>

\* line 148: log.warn gets two arguments for the one %s of its format; a
\* logger that formats with "fmt % args" raises TypeError, inside the
\* except clause, and nothing catches it
HandlerRaises ==
  /\ pc = "handler"
  /\ Raise("TypeError")
  /\ UNCHANGED << cycle, now, queue, loopVars, envVars, catalog, storeVars,
                  calls, log >>

\* line 110: the page is exhausted, run() returns to _run(); the local
\* variables of run() end with the call
RunReturn ==
  /\ pc = "loop"
  /\ idx > Len(results)
  /\ pc' = "enter"
  /\ activeRuns' = activeRuns - 1
  /\ results' = << >>
  /\ idx' = 0
  /\ file_path' = 0
  /\ size' = 0
  /\ cksum' = 0
  /\ fileId' = NoFileId
  /\ UNCHANGED << procVars, cycle, now, queue, envVars, catalog, storeVars,
                  calls, log >>

\* A _run() that enters its next call at the absolute time RERUN_SECONDS
SchedEnter_absolute ==
  /\ pc = "enter"
  /\ queue' = Append(queue, RERUN_SECONDS)
  /\ pc' = "idle"
  /\ where' = IF where = "ctor" THEN "constructed" ELSE where
  /\ UNCHANGED << exc, exitCode, activeRuns, cycle, now, loopVars, envVars,
                  catalog, storeVars, calls, log >>

\* A _run() that returns without entering its next call
SchedEnter_forgets ==
  /\ pc = "enter"
  /\ pc' = "idle"
  /\ where' = IF where = "ctor" THEN "constructed" ELSE where
  /\ UNCHANGED << exc, exitCode, activeRuns, cycle, now, queue, loopVars,
                  envVars, catalog, storeVars, calls, log >>

\* line 71: _run() enters its next call into the scheduler, due
\* RERUN_SECONDS from now, and returns (to __init__ the first time)
SchedEnter ==
  /\ pc = "enter"
  /\ queue' = Append(queue, now + RERUN_SECONDS)
  /\ pc' = "idle"
  /\ where' = IF where = "ctor" THEN "constructed" ELSE where
  /\ UNCHANGED << exc, exitCode, activeRuns, cycle, now, loopVars, envVars,
                  catalog, storeVars, calls, log >>

Next ==
  \/ Tick
  \/ CtorRun
  \/ Start
  \/ SchedRunEvent
  \/ SearchOk
  \/ SearchFails
  \/ LocationFound
  \/ LocationMissing
  \/ StatOk
  \/ StatFails
  \/ Cksum
  \/ Patch1Ok
  \/ Patch1Fails
  \/ InsertOk
  \/ InsertFails
  \/ Patch2Ok
  \/ Patch2Fails
  \/ HandlerLogs
  \/ HandlerRaises
  \/ RunReturn
  \/ SchedEnter

Spec == Init /\ [][Next]_vars

\* Unboundedly many cycles.  The crawler is one thread that never stops by
\* itself: whenever a step is possible, a step is taken.  Whether a call
\* of the environment succeeds is not subject to fairness.
LiveSpec == LiveInit /\ [][Next]_vars /\ WF_vars(Next)

\* ------------------------------------------------------------ type check
TypeOK ==
  /\ where \in {"ctor", "constructed", "schedrun", "exited"}
  /\ pc \in {"idle", "search", "loop", "stat", "cksum", "patch1", "insert",
             "patch2", "handler", "enter"}
  /\ activeRuns \in 0..1
  /\ cycle \in 0..MaxCycles

\* ================================================================ claims
DatasetOfPath(p) == CHOOSE d \in Datasets : DatasetPath(d) = p
DatasetOfFile(f) == CHOOSE d \in Datasets : WatchResource(d) = f

IsPhase1(c) == c.op = "patch_dataset" /\ c.body.kind = "scanResult"
IsPhase2(c) == c.op = "patch_dataset" /\ c.body.kind = "versionMetadata"
IsInsert(c) == c.op = "insertFile"

\* The calls of call c's cycle that concern dataset d
ConcernsIn(c, d, k) ==
  /\ k.cycle = c.cycle
  /\ \/ k.op = "patch_dataset" /\ k.arg = DatasetPath(d)
     \/ k.op = "insertFile" /\ k.arg = WatchResource(d)

\* C1: a dataset whose file cannot be stat'ed is skipped and the cycle goes
\* on: no failed os.stat ends the process, and the dataset stays UNSCANNED.
C1_StatFailureIsSkipped ==
  \A i \in DOMAIN calls :
    (calls[i].op = "stat" /\ ~calls[i].ok)
      => /\ where # "exited"
         /\ catalog[DatasetOfFile(calls[i].arg)].scanStatus = "UNSCANNED"

\* C2: a dataset without a location at the watch site is skipped without
\* raising: the process never ends with the error of the missing location.
C2_NoWatchSiteIsSkipped ==
  ~(where = "exited" /\ exc = "AttributeError")

\* C3: when the phase-1 patch of a dataset fails, the same cycle makes no
\* insertFile call and no phase-2 patch for that dataset.
C3_NoInsertAfterPhase1Failure ==
  \A i \in DOMAIN calls :
    (IsPhase1(calls[i]) /\ ~calls[i].ok)
      => \A j \in DOMAIN calls :
           ConcernsIn(calls[i], DatasetOfPath(calls[i].arg), calls[j])
             => ~IsInsert(calls[j]) /\ ~IsPhase2(calls[j])

\* a phase-1 patch failed and the cycle went on to patch another dataset
C3_Witness ==
  \E i \in DOMAIN calls :
    /\ IsPhase1(calls[i]) /\ ~calls[i].ok
    /\ \E j \in DOMAIN calls :
         /\ j > i
         /\ calls[j].cycle = calls[i].cycle
         /\ IsPhase2(calls[j]) /\ calls[j].ok

\* C4: an error of a cycle other than the catalog-query failure does not
\* stop the scheduler: the process lives on and a further cycle is pending
\* or running.
C4_SchedulerSurvivesCycleError ==
  (exc # "none" /\ exc # "SystemExit")
    => where # "exited" /\ (queue # << >> \/ pc # "idle")

\* C5: a failed catalog search ends the process with exit code 1; its cycle
\* makes no patch_dataset and no insertFile call, no event is armed and no
\* further cycle starts.
C5_QueryFailureIsFatal ==
  \A i \in DOMAIN calls :
    (calls[i].op = "search" /\ ~calls[i].ok)
      => /\ where = "exited"
         /\ exitCode = 1
         /\ pc = "idle"
         /\ queue = << >>
         /\ cycle = calls[i].cycle
         /\ \A j \in DOMAIN calls :
              calls[j].cycle = calls[i].cycle
                => calls[j].op \notin {"patch_dataset", "insertFile"}

\* the search of a cycle run by the scheduler failed, after a cycle that
\* patched a dataset
C5_Witness ==
  /\ where = "exited"
  /\ exc = "SystemExit"
  /\ cycle = 2
  /\ \E i \in DOMAIN calls : IsPhase1(calls[i]) /\ calls[i].ok
  /\ ~calls[Len(calls)].ok /\ calls[Len(calls)].op = "search"

\* C6: at most one run() is in progress at any time, and while one is in
\* progress no event is pending in the scheduler: the event of the next
\* cycle is entered only after run() has returned.
C6_CyclesNeverOverlap ==
  /\ activeRuns \in {0, 1}
  /\ activeRuns = 1 => queue = << >>

\* the scheduler runs the second cycle, which is in its loop
C6_Witness ==
  /\ where = "schedrun"
  /\ activeRuns = 1
  /\ cycle = 2
  /\ pc = "insert"

\* The per-dataset step of d is under way
InProgress(d) ==
  /\ pc \in {"stat", "cksum", "patch1", "insert", "patch2", "handler"}
  /\ idx \in DOMAIN results
  /\ results[idx] = d

\* C7: whenever the step of a dataset has ended with scanStatus = OK and no
\* fileId in the catalog, the log holds a warning naming the dataset.
C7_InconsistentStateIsLogged ==
  \A d \in Datasets :
    (/\ catalog[d].scanStatus = "OK"
     /\ catalog[d].fileId = NoFileId
     /\ ~InProgress(d))
      => \E i \in DOMAIN log :
           log[i].level = "WARN" /\ log[i].path = WatchResource(d)

\* The log record of a failed patch_dataset: the warning of the except
\* clause, written right after the failed call
IsFailureRec(r) ==
  /\ r.level = "WARN"
  /\ r.at \in DOMAIN calls
  /\ calls[r.at].op = "patch_dataset"
  /\ ~calls[r.at].ok

Classification(r) == << r.level, r.msg >>

\* C8: the log record of a phase-2 patch failure differs in classification
\* from the log record of a phase-1 patch failure.
C8_FailureKindsAreDistinct ==
  \A i, j \in DOMAIN log :
    (/\ IsFailureRec(log[i]) /\ IsPhase1(calls[log[i].at])
     /\ IsFailureRec(log[j]) /\ IsPhase2(calls[log[j].at]))
      => Classification(log[i]) # Classification(log[j])

\* C9: insertFile is called at most once for a file over all cycles, and
\* the metadata database never holds two FileRecords of one path.
C9_InsertAtMostOncePerFile ==
  /\ \A f \in WatchFiles :
       Cardinality({ i \in DOMAIN calls : IsInsert(calls[i]) /\ calls[i].arg = f }) <= 1
  /\ \A r1, r2 \in fileRecords : r1.path = r2.path => r1 = r2

\* a dataset whose phase-1 patch failed in one cycle was retried and
\* inserted in a later cycle
C9_Witness ==
  \E i, j \in DOMAIN calls :
    /\ IsPhase1(calls[i]) /\ ~calls[i].ok
    /\ IsInsert(calls[j]) /\ calls[j].ok
    /\ calls[j].arg = WatchResource(DatasetOfPath(calls[i].arg))
    /\ calls[j].cycle > calls[i].cycle

\* C10: a dataset whose checksum computation failed is never patched with
\* scanStatus = OK: it stays UNSCANNED.
C10_CksumFailureLeavesUnscanned ==
  \A i \in DOMAIN calls :
    (calls[i].op = "cksum" /\ ~calls[i].ok)
      => catalog[DatasetOfFile(calls[i].arg)].scanStatus = "UNSCANNED"

Range(q) == { q[i] : i \in DOMAIN q }

\* C11: a dataset whose phase-1 patch failed in cycle n is attempted again
\* in cycle n+1.  Stated on the runs that end: the cycle of a failed
\* phase-1 patch is not ended by an uncaught error, which would leave the
\* dataset without its retry (a failed search, which is meant to end the
\* process, is not counted).
C11_FailedPhase1IsRetried ==
  \A i \in DOMAIN calls :
    (IsPhase1(calls[i]) /\ ~calls[i].ok)
      => ~(where = "exited" /\ exc # "SystemExit" /\ cycle = calls[i].cycle)

\* The search of the current cycle has just returned a page without d,
\* which is UNSCANNED
LeftOut(d) ==
  /\ pc = "loop"
  /\ idx = 1
  /\ catalog[d].scanStatus = "UNSCANNED"
  /\ d \notin Range(results)

\* C12: every UNSCANNED dataset that did not fit in the page of a cycle is
\* eventually returned by the search of a later cycle, whatever patches and
\* inserts fail for the datasets of earlier pages (unless the process ends).
C12_LeftOutIsEventuallyReturned ==
  \A d \in Datasets :
    LeftOut(d) ~> (d \in Range(results) \/ where = "exited")

\* C13: unless a cycle ends the process, start() never returns and cycles
\* occur infinitely often: whenever sched.run() is between two cycles an
\* event is pending, and the scheduler starts a cycle again and again.
C13_CyclesForever ==
  /\ [](where = "schedrun" /\ pc = "idle" => queue # << >>)
  /\ (<>(where = "exited") \/ []<>(where = "schedrun" /\ pc = "search"))

\* the scheduler starts a cycle after every dataset has been scanned and
\* cross-referenced: the cycles go on with nothing left to do
C13_Witness ==
  /\ where = "schedrun"
  /\ pc = "search"
  /\ \A d \in Datasets :
       catalog[d].scanStatus = "OK" /\ catalog[d].fileId # NoFileId

\* C14: a dataset processed without failure gets, in its cycle, exactly one
\* phase-1 patch with site = watch site, then one insertFile, then one
\* phase-2 patch, as three consecutive calls: no call for another dataset
\* comes between them.
C14_CallsInOrder ==
  \A i \in DOMAIN calls :
    (IsPhase2(calls[i]) /\ calls[i].ok) =>
      LET d == DatasetOfPath(calls[i].arg)
      IN /\ i > 2
         /\ IsPhase1(calls[i - 2])
         /\ calls[i - 2].ok
         /\ calls[i - 2].arg = DatasetPath(d)
         /\ calls[i - 2].site = WATCH_SITE
         /\ calls[i - 2].cycle = calls[i].cycle
         /\ IsInsert(calls[i - 1])
         /\ calls[i - 1].ok
         /\ calls[i - 1].arg = WatchResource(d)
         /\ calls[i - 1].cycle = calls[i].cycle
         /\ { j \in DOMAIN calls : ConcernsIn(calls[i], d, calls[j]) }
              = { i - 2, i - 1, i }

\* a dataset went through without failure and the next dataset of the same
\* page has been patched after it
C14_Witness ==
  \E i, j \in DOMAIN calls :
    /\ IsPhase2(calls[i]) /\ calls[i].ok
    /\ j > i
    /\ calls[j].cycle = calls[i].cycle
    /\ IsPhase1(calls[j])
    /\ calls[j].arg # calls[i].arg

\* C15: a failed catalog patch (phase 1 or phase 2) never aborts the page:
\* the failure is logged, the remaining datasets are processed and the
\* cycle returns to the scheduler; the process does not end in the cycle
\* of a failed patch.
C15_PatchFailureKeepsThePage ==
  \A i \in DOMAIN calls :
    (calls[i].op = "patch_dataset" /\ ~calls[i].ok)
      => /\ ~(where = "exited" /\ cycle = calls[i].cycle)
         /\ (pc = "handler" /\ i = Len(calls))
              \/ \E k \in DOMAIN log :
                   /\ log[k].level = "WARN"
                   /\ log[k].msg = MsgUpdateError
                   /\ log[k].at = i

\* C16: a dataset has scanStatus OK only through a successful phase-1
\* patch that follows a successful stat and a successful checksum of its
\* watch-site file in the same cycle, and the catalog holds the size and
\* checksum of that file.
C16_OkOnlyAfterSuccessfulScan ==
  \A d \in Datasets :
    catalog[d].scanStatus = "OK" =>
      /\ \E i \in DOMAIN calls :
           /\ i > 2
           /\ IsPhase1(calls[i]) /\ calls[i].ok
           /\ calls[i].arg = DatasetPath(d)
           /\ calls[i - 1].op = "cksum" /\ calls[i - 1].ok
           /\ calls[i - 1].arg = WatchResource(d)
           /\ calls[i - 1].cycle = calls[i].cycle
           /\ calls[i - 2].op = "stat" /\ calls[i - 2].ok
           /\ calls[i - 2].arg = WatchResource(d)
           /\ calls[i - 2].cycle = calls[i].cycle
      /\ catalog[d].size = StSize(WatchResource(d))
      /\ catalog[d].checksum = FileCrc(WatchResource(d))

\* C17: a phase-2 patch carries only the fileId, the one insertFile
\* returned for the dataset's file in the same cycle; it goes to the path
\* and versionId of the phase-1 patch, without a site.  Only phase-1
\* patches carry site = watch site.
C17_Phase2CarriesInsertedId ==
  /\ \A i \in DOMAIN calls :
       IsPhase2(calls[i]) =>
         LET d == DatasetOfPath(calls[i].arg)
             f == calls[i].body.fileId
         IN /\ calls[i].site = "none"
            /\ calls[i].body = [NoBody EXCEPT !.kind = "versionMetadata",
                                              !.fileId = f]
            /\ i > 2
            /\ IsInsert(calls[i - 1]) /\ calls[i - 1].ok
            /\ calls[i - 1].arg = WatchResource(d)
            /\ calls[i - 1].cycle = calls[i].cycle
            /\ [fileId |-> f, path |-> WatchResource(d)] \in fileRecords
            /\ IsPhase1(calls[i - 2])
            /\ calls[i - 2].arg = calls[i].arg
            /\ calls[i - 2].versionId = calls[i].versionId
            /\ calls[i - 2].cycle = calls[i].cycle
  /\ \A i \in DOMAIN calls :
       calls[i].op = "patch_dataset" =>
         (calls[i].site = WATCH_SITE <=> IsPhase1(calls[i]))

\* the second file inserted has been cross-referenced: its dataset holds
\* the second id of the database
C17_Witness ==
  \E i \in DOMAIN calls :
    /\ IsPhase2(calls[i]) /\ calls[i].ok
    /\ calls[i].body.fileId = 2
    /\ catalog[DatasetOfPath(calls[i].arg)].fileId = 2

\* C18: the scheduler queue never holds more than one event; between two
\* cycles, after a cycle has returned, it holds exactly one, due
\* RERUN_SECONDS after the time the cycle returned.
C18_OnePendingEvent ==
  /\ Len(queue) <= 1
  /\ (pc = "idle" /\ where \in {"constructed", "schedrun"})
       => queue = << now + RERUN_SECONDS >>
  /\ pc \notin {"idle", "enter"} => queue = << >>

\* the first cycle took time, the second started when its event was due
\* and has returned: the next event is due RERUN_SECONDS after that
C18_Witness ==
  /\ where = "schedrun"
  /\ pc = "idle"
  /\ cycle = 2
  /\ now = MaxTime + RERUN_SECONDS
  /\ queue = << now + RERUN_SECONDS >>

\* C19: the first cycle runs inside the constructor; start() is called
\* only after it has returned and armed the second cycle, and drives the
\* second and later cycles; a first cycle whose search fails ends the
\* process from inside the constructor.
C19_FirstCycleInConstructor ==
  /\ [](cycle = 1 /\ pc # "idle" => where = "ctor")
  /\ [](where \in {"constructed", "schedrun"} => cycle >= 1)
  /\ [](where = "schedrun" /\ pc # "idle" => cycle >= 2)
  /\ [][(where' = "schedrun" /\ where # "schedrun")
          => (where = "constructed" /\ cycle = 1 /\ pc = "idle"
              /\ Len(queue) = 1)]_vars
  /\ [][(where' = "exited" /\ where # "exited" /\ cycle = 1)
          => where = "ctor"]_vars

\* the first cycle scanned and cross-referenced a dataset and the
\* scheduler has started the second cycle
C19_Witness ==
  /\ where = "schedrun"
  /\ pc = "search"
  /\ cycle = 2
  /\ \E i \in DOMAIN calls :
       IsPhase2(calls[i]) /\ calls[i].ok /\ calls[i].cycle = 1

====
